---- MODULE Spec2Model ----
(***************************************************************************)
(* Model of the Husqvarna Automower tools of this repository:              *)
(*   main.py              the poller (StaticAuth, run_once, run_loop)      *)
(*   automower_ctl.py     the full CLI ("ctl")                              *)
(*   amc_action.py        the small CLI ("amc")                             *)
(*   get_refresh_token.py the refresh-token fetcher ("grt")                 *)
(*                                                                         *)
(* The credential file (.env) is a sequence of symbols.  The symbol KEY    *)
(* stands for the substring "HUSQ_REFRESH_TOKEN=", NL for "\n", SP for a   *)
(* blank, HASH for any other character, and "rt1", "rt2" for refresh      *)
(* token values.  NL is the only line boundary of the alphabet.            *)
(***************************************************************************)
EXTENDS Integers, Sequences, FiniteSets, TLC

KEY == "HUSQ_REFRESH_TOKEN="
NL == "\n"
SP == " "
HASH == "#"
None == "None"

\* ------------------------------------------------------------------ bounds
MaxDevices == 3
MaxIter == 3
MaxDuration == 30
MaxAreas == 2
MaxCallbacks == 2

\* ------------------------------------------------------- program constants
SafetyMargin == 30
DefaultExpiresIn == 300
ErrorStatus == 400
MinSleep == 1

\* ------------------------------------------------------------- text helpers
RECURSIVE SplitNL(_)
\* str.split("\n"): the segments between the line breaks (always at least one)
SplitNL(text) ==
  IF \A i \in 1..Len(text) : text[i] # NL
  THEN <<text>>
  ELSE LET i == CHOOSE k \in 1..Len(text) :
                  text[k] = NL /\ \A j \in 1..(k-1) : text[j] # NL
       IN <<SubSeq(text, 1, i-1)>> \o SplitNL(SubSeq(text, i+1, Len(text)))

\* str.splitlines(): as split("\n"), without the empty segment after a final NL
splitlines(text) ==
  LET segs == SplitNL(text)
  IN IF segs[Len(segs)] = <<>> THEN SubSeq(segs, 1, Len(segs)-1) ELSE segs

RECURSIVE join(_)
\* "\n".join(lines)
join(lines) ==
  IF lines = <<>> THEN <<>>
  ELSE IF Len(lines) = 1 THEN lines[1]
  ELSE lines[1] \o <<NL>> \o join(Tail(lines))

RECURSIVE lstrip(_)
lstrip(s) == IF s # <<>> /\ s[1] = SP THEN lstrip(Tail(s)) ELSE s

RECURSIVE rstrip(_)
rstrip(s) ==
  IF s # <<>> /\ s[Len(s)] = SP THEN rstrip(SubSeq(s, 1, Len(s)-1)) ELSE s

\* str.strip()
strip(s) == rstrip(lstrip(s))

\* str.startswith("HUSQ_REFRESH_TOKEN=")
startswithKey(s) == s # <<>> /\ s[1] = KEY

\* "HUSQ_REFRESH_TOKEN=" in text
containsKey(text) == \E i \in 1..Len(text) : text[i] = KEY

\* text.endswith("\n")
endswithNL(text) == text # <<>> /\ text[Len(text)] = NL

\* f"HUSQ_REFRESH_TOKEN={new_rt}"
entry(new_rt) == <<KEY, new_rt>>

\* index of the first line whose stripped form starts with the key, 0 if none
firstKeyLine(lines) ==
  IF \E i \in 1..Len(lines) : startswithKey(strip(lines[i]))
  THEN CHOOSE i \in 1..Len(lines) :
         /\ startswithKey(strip(lines[i]))
         /\ \A j \in 1..(i-1) : ~startswithKey(strip(lines[j]))
  ELSE 0

\* ---------------------------------------------------- the persist functions
\* main.py _persist_refresh_token_to_env, the text written when the file exists
rewriteLines(text, new_rt) ==
  LET lines == splitlines(text)
      i == firstKeyLine(lines)
      out == IF i # 0 THEN [lines EXCEPT ![i] = entry(new_rt)]
             ELSE Append(lines, entry(new_rt))
  IN join(out) \o <<NL>>

\* re.sub(r"^HUSQ_REFRESH_TOKEN=.*$", entry, text, flags=re.MULTILINE)
reSubKeyLines(text, new_rt) ==
  LET segs == SplitNL(text)
  IN join([i \in 1..Len(segs) |->
             IF startswithKey(segs[i]) THEN entry(new_rt) ELSE segs[i]])

\* automower_ctl.py / amc_action.py _persist_rotated_rt, the text written
\* (text is "" when the file does not exist)
rewriteText(text, new_rt) ==
  IF containsKey(text)
  THEN reSubKeyLines(text, new_rt)
  ELSE (IF text # <<>> /\ ~endswithNL(text) THEN text \o <<NL>> ELSE text)
       \o entry(new_rt) \o <<NL>>


\* ------------------------------------------------------------------- state
VARIABLES
  prog,       \* which program runs: "poller", "ctl", "amc", "grt"
  args,       \* the parsed command line
  cfg,        \* Config, read from the environment at startup
  file,       \* the credential file .env: [exists, text]
  clock,      \* time.time()
  iter,       \* number of the current run_once iteration (poller)
  auth,       \* StaticAuth: refresh_token, access_token, expires_at
  access,     \* the CLI's local access token
  pc,         \* where the program is
  reqs,       \* requests sent in this invocation / poll iteration
  lastResp,   \* the last token-endpoint response received
  actResps,   \* responses received to the action requests
  pending,    \* text handed to the write that is in progress
  out,        \* messages printed or logged
  exitCode,   \* process exit status
  err,        \* the error that ended the invocation / iteration
  mowers,     \* device list received
  mower,      \* the device picked
  ioFailed,   \* a read or write of the credential file raised
  writes,     \* number of times the credential file was opened for writing
  file0,      \* the credential file when the token request was sent
  issued,     \* the refresh token the token endpoint returned last
  CODE_HOLDER, \* get_refresh_token.py: what the callback handler has stored
  handler     \* the callback handler thread: its position, the requests seen

vars == <<prog, args, cfg, file, clock, iter, auth, access, pc, reqs, lastResp,
          actResps, pending, out, exitCode, err, mowers, mower, ioFailed,
          writes, file0, issued, CODE_HOLDER, handler>>

NoInt == -1
NoExit == -1
NoErr == [kind |-> None, status |-> 0, on |-> None]
NoResp == [status |-> 0, access_token |-> None, refresh_token |-> None,
           expires_in |-> NoInt]
NoAttrs == [workAreaId |-> NoInt, duration |-> NoInt, cuttingHeight |-> NoInt,
            headlight |-> None]
NoMower == [id |-> None, name |-> None, headlights |-> FALSE, workAreas |-> <<>>]
NoAuth == [refresh_token |-> None, access_token |-> None, expires_at |-> 0]

\* Python truthiness of an Optional[str]
Truthy(s) == s # None /\ s # ""

\* --------------------------------------------------------------- inputs
Tokens == {"rt1", "rt2"}

AllPresent == [client_id |-> "cid", client_secret |-> "sec", app_key |-> "key",
               refresh_token |-> "rt1", poll_seconds |-> 30]

CfgSamples ==
  {AllPresent,
   [AllPresent EXCEPT !.refresh_token = ""],
   [AllPresent EXCEPT !.app_key = ""],
   [AllPresent EXCEPT !.client_id = "", !.client_secret = ""]}
  \cup {[AllPresent EXCEPT !.poll_seconds = p] : p \in {0, 100}}

\* get_refresh_token.py reads HUSQ_CLIENT_ID and HUSQ_CLIENT_SECRET only
GrtCfgSamples ==
  {AllPresent, [AllPresent EXCEPT !.client_id = "", !.client_secret = ""]}

Absent == [exists |-> FALSE, text |-> <<>>]
Present(text) == [exists |-> TRUE, text |-> text]

FileSamples ==
  {Absent,
   Present(<<KEY, "rt1", NL>>),
   Present(<<HASH, NL, KEY, "rt1">>),
   Present(<<SP, KEY, "rt1", NL>>),
   Present(<<HASH, KEY, "rt1", NL, HASH, NL>>),
   Present(<<KEY, "rt1", NL, HASH, NL, KEY, "rt2", NL>>)}

\* the credential files of the browser flow runs
BrowserFileSamples == {Absent, Present(<<KEY, "rt1", NL>>)}

NoArgs == [cmd |-> None, mower_id |-> None, mower_name |-> None,
           fallback_start |-> FALSE, duration |-> NoInt, until_next |-> FALSE,
           work_area |-> None, height |-> NoInt, mode |-> None,
           once |-> FALSE, code |-> None]

Cmd(c) == [NoArgs EXCEPT !.cmd = c]

Selectors == {<<None, None>>, <<"2", None>>, <<None, "C">>, <<"2", "A">>,
              <<"9", None>>, <<None, "Z">>, <<"", "A">>}

CtlArgs ==
  {Cmd("list-actions"), Cmd("pause"), Cmd("resume"), Cmd("confirm-error"),
   [Cmd("resume") EXCEPT !.fallback_start = TRUE],
   Cmd("start"),
   [Cmd("start") EXCEPT !.work_area = "Front", !.duration = 60],
   [Cmd("start") EXCEPT !.work_area = "7"],
   [Cmd("start") EXCEPT !.work_area = "Nowhere"],
   Cmd("park"),
   [Cmd("park") EXCEPT !.duration = 30],
   [Cmd("park") EXCEPT !.until_next = TRUE],
   [Cmd("park") EXCEPT !.duration = 30, !.until_next = TRUE],
   [Cmd("set-height") EXCEPT !.height = 5],
   [Cmd("set-headlight") EXCEPT !.mode = "ALWAYS_ON"],
   [Cmd("set-headlight") EXCEPT !.mode = "EVENING_ONLY"]}
  \cup {[Cmd("pause") EXCEPT !.mower_id = s[1], !.mower_name = s[2]] :
          s \in Selectors}

AmcArgs ==
  {Cmd("pause"), Cmd("resume"),
   [Cmd("resume") EXCEPT !.fallback_start = TRUE],
   Cmd("park"),
   [Cmd("park") EXCEPT !.duration = 30]}
  \cup {[Cmd("pause") EXCEPT !.mower_id = s[1], !.mower_name = s[2]] :
          s \in Selectors}

PollerArgs == {[NoArgs EXCEPT !.once = b] : b \in BOOLEAN}

GrtArgs == {NoArgs, [NoArgs EXCEPT !.code = "code1"]}

\* STATE = secrets.token_urlsafe(16)  (STATE is a reserved word)
STATE_TOKEN == "state1"

\* CODE_HOLDER = {"code": None, "error": None, "state": None}
NoCallback == [code |-> None, error |-> None, state |-> None]

\* the handler thread before the first request
Idle == [pc |-> "idle", seen |-> <<>>]

\* the query parameters of a request to the redirect path (None: not given)
Callbacks ==
  [code : {None, "code1", "code2"}, error : {None, "access_denied"},
   state : {STATE_TOKEN, "forged"}]

\* (q.get(name) or [""])[0]
Param(v) == IF v = None THEN "" ELSE v

\* token endpoint responses: a status, and the fields of the JSON body
TokenResponses ==
  {[status |-> s, access_token |-> None, refresh_token |-> None,
    expires_in |-> NoInt] : s \in {400, 503}}
  \cup [status : {200, 304}, access_token : {None, "at1"},
        refresh_token : {None, ""} \cup Tokens, expires_in : {NoInt, 60}]

Dev(i, n, h) ==
  [id |-> i, name |-> n, headlights |-> h,
   workAreas |-> <<[workAreaId |-> 3, name |-> "7"],
                   [workAreaId |-> 7, name |-> "Front"]>>]

DeviceLists ==
  {<<>>,
   <<Dev("1", "A", TRUE)>>,
   <<Dev("2", None, FALSE)>>,
   <<Dev("1", "A", FALSE), Dev("2", "B", TRUE), Dev("3", "C", FALSE)>>,
   <<Dev("3", "A", FALSE), Dev("2", "A", TRUE)>>}

ListResponses ==
  {[status |-> 401, data |-> <<>>]}
  \cup {[status |-> 200, data |-> d] : d \in DeviceLists}

ActionResponses ==
  {[kind |-> "http", status |-> 202], [kind |-> "http", status |-> 400],
   [kind |-> "neterr", status |-> 0]}


\* ----------------------------------------------------------- pure functions
Picked(it) == [kind |-> "ok", item |-> it, code |-> 0, msg |-> None]
SystemExit(code, msg) == [kind |-> "exit", item |-> NoMower, code |-> code, msg |-> msg]

firstWith(items, P(_)) ==
  items[CHOOSE i \in 1..Len(items) : P(items[i]) /\ \A j \in 1..(i-1) : ~P(items[j])]

\* mutant of pick_mower: the name is tried before the id
pick_mower_NameFirst(items, mower_id, mower_name) ==
  IF items = <<>> THEN SystemExit(1, "no_mowers")
  ELSE IF Truthy(mower_name)
  THEN (IF \E i \in 1..Len(items) : items[i].name = mower_name
        THEN Picked(firstWith(items, LAMBDA it : it.name = mower_name))
        ELSE SystemExit(1, "name_not_found"))
  ELSE IF Truthy(mower_id)
  THEN (IF \E i \in 1..Len(items) : items[i].id = mower_id
        THEN Picked(firstWith(items, LAMBDA it : it.id = mower_id))
        ELSE SystemExit(1, "id_not_found"))
  ELSE IF Len(items) = 1 THEN Picked(items[1])
  ELSE SystemExit(2, "ambiguous")

\* automower_ctl.py pick_mower: the item picked, or the SystemExit raised
\* (SystemExit with a message exits with status 1)
pick_mower(items, mower_id, mower_name) ==
  IF items = <<>> THEN SystemExit(1, "no_mowers")
  ELSE IF Truthy(mower_id)
  THEN (IF \E i \in 1..Len(items) : items[i].id = mower_id
        THEN Picked(firstWith(items, LAMBDA it : it.id = mower_id))
        ELSE SystemExit(1, "id_not_found"))
  ELSE IF Truthy(mower_name)
  THEN (IF \E i \in 1..Len(items) : items[i].name = mower_name
        THEN Picked(firstWith(items, LAMBDA it : it.name = mower_name))
        ELSE SystemExit(1, "name_not_found"))
  ELSE IF Len(items) = 1 THEN Picked(items[1])
  ELSE SystemExit(2, "ambiguous")

\* amc_action.py pick_mower: returns the id of the item, not the item
pick_mower_amc(items, mower_id, mower_name) ==
  IF items = <<>> THEN SystemExit(1, "no_mowers")
  ELSE IF Truthy(mower_id)
  THEN (IF \E i \in 1..Len(items) : items[i].id = mower_id
        THEN Picked([NoMower EXCEPT !.id = mower_id])
        ELSE SystemExit(1, "id_not_found"))
  ELSE IF Truthy(mower_name)
  THEN (IF \E i \in 1..Len(items) : items[i].name = mower_name
        THEN Picked([NoMower EXCEPT
                       !.id = firstWith(items, LAMBDA it : it.name = mower_name).id])
        ELSE SystemExit(1, "name_not_found"))
  ELSE IF Len(items) = 1 THEN Picked([NoMower EXCEPT !.id = items[1].id])
  ELSE SystemExit(2, "ambiguous")

\* f"- {name or '(no-name)'}  ({it.get('id')})"
candidate(it) ==
  (IF Truthy(it.name) THEN it.name ELSE "(no-name)") \o " (" \o it.id \o ")"

\* what pick_mower's failure p puts on stderr: the SystemExit message, and
\* before SystemExit(2) the heading and one line for every item
pick_mower_stderr(items, p) ==
  IF p.code = 2 THEN {p.msg} \cup {candidate(items[i]) : i \in 1..Len(items)}
  ELSE {p.msg}

\* mutant of find_work_area_id: the id loop runs before the name loop
find_work_area_id_IdFirst(m, name_or_id) ==
  LET areas == m.workAreas
  IN IF \E i \in 1..Len(areas) : ToString(areas[i].workAreaId) = name_or_id
     THEN firstWith(areas, LAMBDA wa : ToString(wa.workAreaId) = name_or_id).workAreaId
     ELSE IF \E i \in 1..Len(areas) : areas[i].name = name_or_id
     THEN firstWith(areas, LAMBDA wa : wa.name = name_or_id).workAreaId
     ELSE NoInt

\* automower_ctl.py find_work_area_id: the workAreaId, or NoInt for SystemExit
find_work_area_id(m, name_or_id) ==
  LET areas == m.workAreas
  IN IF \E i \in 1..Len(areas) : areas[i].name = name_or_id
     THEN firstWith(areas, LAMBDA wa : wa.name = name_or_id).workAreaId
     ELSE IF \E i \in 1..Len(areas) : ToString(areas[i].workAreaId) = name_or_id
     THEN firstWith(areas, LAMBDA wa : ToString(wa.workAreaId) = name_or_id).workAreaId
     ELSE NoInt

Payload(t) == [type |-> t, attrs |-> NoAttrs]

\* automower_ctl.py do_start: the payload posted
start_payload(work_area_id, duration) ==
  [type |-> "Start",
   attrs |-> [NoAttrs EXCEPT !.workAreaId = work_area_id, !.duration = duration]]

\* mutant of park_payload: a supplied duration is looked at before --until-next
park_payload_DurationFirst(duration, until_next) ==
  IF duration # NoInt
  THEN [type |-> "Park", attrs |-> [NoAttrs EXCEPT !.duration = duration]]
  ELSE IF until_next THEN Payload("ParkUntilNextSchedule")
  ELSE Payload("ParkUntilFurtherNotice")

\* automower_ctl.py do_park: the payload posted
park_payload(duration, until_next) ==
  IF until_next THEN Payload("ParkUntilNextSchedule")
  ELSE IF duration = NoInt THEN Payload("ParkUntilFurtherNotice")
  ELSE [type |-> "Park", attrs |-> [NoAttrs EXCEPT !.duration = duration]]

\* amc_action.py main, cmd == "park": no --until-next flag
park_payload_amc(duration) ==
  IF duration = NoInt THEN Payload("ParkUntilFurtherNotice")
  ELSE [type |-> "Park", attrs |-> [NoAttrs EXCEPT !.duration = duration]]

height_payload(height) ==
  [type |-> "settings", attrs |-> [NoAttrs EXCEPT !.cuttingHeight = height]]

headlight_payload(mode) ==
  [type |-> "settings", attrs |-> [NoAttrs EXCEPT !.headlight = mode]]

\* mutant of TokenReq: the exchange always sends the token read at startup
TokenReq_Startup(rt) ==
  [kind |-> "token", rt |-> cfg.refresh_token, payload |-> Payload(None)]

\* requests, as they appear in reqs
TokenReq(rt) == [kind |-> "token", rt |-> rt, payload |-> Payload(None)]
CodeReq(code) == [kind |-> "code", rt |-> code, payload |-> Payload(None)]
ListReq == [kind |-> "list", rt |-> None, payload |-> Payload(None)]
ActionReq(pl) == [kind |-> "action", rt |-> None, payload |-> pl]

\* mutant of RaisesForStatus: `>` for `>=`, a 400 is let through
RaisesForStatus_Above(status) == status > ErrorStatus

\* post_action / get_mowers / get_access_token: r.status >= 400 raises
RaisesForStatus(status) == status >= ErrorStatus

\* an action response that makes post_action raise
ActionFailed(r) == r.kind = "neterr" \/ RaisesForStatus(r.status)


\* main.py _persist_refresh_token_to_env: the text it writes
persist_refresh_token_to_env(f, new_rt) ==
  IF ~f.exists THEN entry(new_rt) \o <<NL>> ELSE rewriteLines(f.text, new_rt)

\* automower_ctl.py / amc_action.py _persist_rotated_rt: the text it writes
persist_rotated_rt(f, new_rt) ==
  rewriteText(IF f.exists THEN f.text ELSE <<>>, new_rt)

\* get_refresh_token.py update_dotenv: the text it writes
update_dotenv(f, new_rt) ==
  IF ~f.exists THEN entry(new_rt) \o <<NL>>
  ELSE LET lines == splitlines(f.text)
           i == firstKeyLine(lines)
       IN join(IF i # 0 THEN [lines EXCEPT ![i] = entry(new_rt)]
               ELSE Append(lines, entry(new_rt))) \o <<NL>>

\* the text the running program writes for a new refresh token
NewText(f, new_rt) ==
  CASE prog = "poller" -> persist_refresh_token_to_env(f, new_rt)
    [] prog = "grt" -> update_dotenv(f, new_rt)
    [] OTHER -> persist_rotated_rt(f, new_rt)

\* mutant of NeedsRefresh: `>` for `>=`, the token is used at the margin
NeedsRefresh_StrictlyAfter(a, now) ==
  ~Truthy(a.access_token) \/ now > a.expires_at - SafetyMargin

\* StaticAuth.async_get_access_token: the condition for a new exchange
NeedsRefresh(a, now) ==
  ~Truthy(a.access_token) \/ now >= a.expires_at - SafetyMargin

\* mutant of IsRotation: the comparison with the current token is dropped
IsRotation_AnyToken(new_rt, current) == Truthy(new_rt)

\* mutant of IsRotation: the new token is compared with itself
IsRotation_ComparesWithItself(new_rt, current) == Truthy(new_rt) /\ new_rt # new_rt

\* the rotation test: `if new_rt and new_rt != refresh_token`
IsRotation(new_rt, current) == Truthy(new_rt) /\ new_rt # current

\* int(tok.get("expires_in", 300))
ExpiresIn(r) == IF r.expires_in = NoInt THEN DefaultExpiresIn ELSE r.expires_in

\* `not all([client_id, client_secret, api_key, refresh_token])`
MissingSecrets(c) ==
  c.client_id = "" \/ c.client_secret = "" \/ c.app_key = "" \/ c.refresh_token = ""

IsCli == prog \in {"ctl", "amc"}

\* ------------------------------------------------------------------- Init
Init ==
  /\ prog \in {"poller", "ctl", "amc", "grt"}
  /\ args \in (CASE prog = "poller" -> PollerArgs
                 [] prog = "ctl" -> CtlArgs
                 [] prog = "amc" -> AmcArgs
                 [] OTHER -> GrtArgs)
  /\ cfg \in (CASE prog = "poller" -> CfgSamples
                [] prog = "grt" -> GrtCfgSamples
                [] OTHER -> {c \in CfgSamples :
                              c.poll_seconds = AllPresent.poll_seconds})
  /\ file \in (IF prog = "grt" /\ ~Truthy(args.code) THEN BrowserFileSamples
               ELSE FileSamples)
  /\ clock = 0
  /\ iter = 1
  /\ auth = IF prog = "poller"
            THEN [NoAuth EXCEPT !.refresh_token = cfg.refresh_token]
            ELSE NoAuth
  /\ access = None
  /\ pc = IF prog = "poller" THEN "iter" ELSE "start"
  /\ reqs = <<>>
  /\ lastResp = NoResp
  /\ actResps = <<>>
  /\ pending = <<>>
  /\ out = {}
  /\ exitCode = NoExit
  /\ err = NoErr
  /\ mowers = <<>>
  /\ mower = NoMower
  /\ ioFailed = FALSE
  /\ writes = 0
  /\ file0 = file
  /\ issued = cfg.refresh_token
  /\ CODE_HOLDER = NoCallback
  /\ handler = Idle

\* mutant of Exit: every failure ends with status 1, e.code is dropped
Exit_Generic(code) == pc' = "exit" /\ exitCode' = (IF code = 0 THEN 0 ELSE 1)

\* the process ends with status `code`
Exit(code) == pc' = "exit" /\ exitCode' = code

\* ------------------------------------------------------------ CLI: startup
\* automower_ctl.py main / amc_action.py main, up to the token request
CliReadCfg ==
  /\ IsCli /\ pc = "start"
  /\ IF MissingSecrets(cfg)
     THEN /\ out' = out \cup {"missing_env"}
          /\ err' = [kind |-> "SystemExit", status |-> 1, on |-> "read_cfg"]
          /\ Exit(1)
          /\ UNCHANGED <<reqs, file0>>
     ELSE /\ reqs' = Append(reqs, TokenReq(cfg.refresh_token))
          /\ file0' = file
          /\ pc' = "tok_wait"
          /\ UNCHANGED <<out, err, exitCode>>
  /\ UNCHANGED <<CODE_HOLDER, handler, issued, prog, args, cfg, file, clock, iter, auth, access, lastResp,
                 actResps, pending, mowers, mower, ioFailed, writes>>

\* get_access_token returns or raises; main tests the rotation
CliTokenResponse ==
  /\ IsCli /\ pc = "tok_wait"
  /\ \E r \in TokenResponses :
       /\ lastResp' = r
       /\ IF RaisesForStatus(r.status)
          THEN /\ out' = out \cup {"token_refresh_failed", "ERROR"}
               /\ err' = [kind |-> "http", status |-> r.status, on |-> "token"]
               /\ Exit(1)
               /\ UNCHANGED <<access, issued>>
          ELSE IF r.access_token = None
          THEN /\ out' = out \cup {"ERROR"}
               /\ err' = [kind |-> "KeyError", status |-> r.status, on |-> "token"]
               /\ Exit(1)
               /\ UNCHANGED <<access, issued>>
          ELSE /\ access' = r.access_token
               /\ issued' = IF Truthy(r.refresh_token) THEN r.refresh_token
                            ELSE issued
               /\ pc' = IF IsRotation(r.refresh_token, cfg.refresh_token)
                        THEN "persist" ELSE "tok_done"
               /\ UNCHANGED <<out, err, exitCode>>
  /\ UNCHANGED <<CODE_HOLDER, handler, prog, args, cfg, file, clock, iter, auth, reqs, actResps,
                 pending, mowers, mower, ioFailed, writes, file0>>


\* ------------------------------------------- rewriting the credential file
\* proper prefixes of a text: what a failed write may leave behind
Prefixes(text) == {SubSeq(text, 1, n) : n \in 0..(Len(text) - 1)}

\* mutant of PersistRaised: no handler, the exception leaves the program
PersistRaised_Propagates ==
  /\ ioFailed' = TRUE
  /\ err' = [kind |-> "OSError", status |-> 0, on |-> "persist"]
  /\ out' = out
  /\ Exit(1)

\* what follows an exception raised inside the persist function:
\* main.py / the CLIs catch it and warn; update_dotenv has no handler
PersistRaised ==
  /\ ioFailed' = TRUE
  /\ IF prog = "grt"
     THEN /\ err' = [kind |-> "OSError", status |-> 0, on |-> "update_dotenv"]
          /\ out' = out
          /\ Exit(1)
     ELSE /\ out' = out \cup {"warning_persist"}
          /\ pc' = "tok_done"
          /\ UNCHANGED <<err, exitCode>>

\* exists() / read / open(path, "w"): opening for writing truncates the file
PersistBegin ==
  /\ pc = "persist"
  /\ \/ /\ PersistRaised
        /\ UNCHANGED <<file, pending, writes>>
     \/ /\ pending' = NewText(file, lastResp.refresh_token)
        /\ file' = Present(<<>>)
        /\ writes' = writes + 1
        /\ pc' = "writing"
        /\ UNCHANGED <<out, err, exitCode, ioFailed>>
  /\ UNCHANGED <<CODE_HOLDER, handler, issued, prog, args, cfg, clock, iter, auth, access, reqs, lastResp,
                 actResps, mowers, mower, file0>>

\* write() and close: the whole text, or an exception after part of it
PersistWrite ==
  /\ pc = "writing"
  /\ \/ /\ file' = Present(pending)
        /\ out' = out \cup {"rotated_saved"}
        /\ IF prog = "grt" THEN Exit(0)
           ELSE pc' = "tok_done" /\ UNCHANGED exitCode
        /\ UNCHANGED <<err, ioFailed>>
     \/ /\ \E part \in Prefixes(pending) : file' = Present(part)
        /\ PersistRaised
  /\ UNCHANGED <<CODE_HOLDER, handler, issued, prog, args, cfg, clock, iter, auth, access, reqs, lastResp,
                 actResps, pending, mowers, mower, writes, file0>>

\* ------------------------------------------------- CLI: list, pick, act
\* mutant of CliSendList: the device list is fetched a second time
CliSendList_Refetch ==
  /\ IsCli /\ pc = "tok_done"
  /\ reqs' = Append(Append(reqs, ListReq), ListReq)
  /\ pc' = "list_wait"
  /\ UNCHANGED <<CODE_HOLDER, handler, issued, prog, args, cfg, file, clock, iter, auth, access, lastResp,
                 actResps, pending, out, exitCode, err, mowers, mower,
                 ioFailed, writes, file0>>

\* get_mowers: GET /v1/mowers with the access token
CliSendList ==
  /\ IsCli /\ pc = "tok_done"
  /\ reqs' = Append(reqs, ListReq)
  /\ pc' = "list_wait"
  /\ UNCHANGED <<CODE_HOLDER, handler, issued, prog, args, cfg, file, clock, iter, auth, access, lastResp,
                 actResps, pending, out, exitCode, err, mowers, mower,
                 ioFailed, writes, file0>>

Send(pl) == [kind |-> "send", payload |-> pl, code |-> 0, msg |-> None]
Done(code, msg) == [kind |-> "done", payload |-> Payload(None), code |-> code, msg |-> msg]

\* mutant of has_headlights: the capability is taken for granted
has_headlights_Assumed(m) == TRUE

\* do_set_headlight: caps.get("headlights", False)
has_headlights(m) == m.headlights

\* automower_ctl.py main, lines 310-331: what the command does first
ctl_dispatch(a, m) ==
  CASE a.cmd = "list-actions" -> Done(0, "actions_listed")
    [] a.cmd = "pause" -> Send(Payload("Pause"))
    [] a.cmd = "resume" -> Send(Payload("ResumeSchedule"))
    [] a.cmd = "start" ->
         IF Truthy(a.work_area)
         THEN (IF find_work_area_id(m, a.work_area) = NoInt
               THEN Done(1, "work_area_not_found")
               ELSE Send(start_payload(find_work_area_id(m, a.work_area), a.duration)))
         ELSE Send(start_payload(NoInt, a.duration))
    [] a.cmd = "park" -> Send(park_payload(a.duration, a.until_next))
    [] a.cmd = "confirm-error" -> Send(Payload("ConfirmError"))
    [] a.cmd = "set-height" -> Send(height_payload(a.height))
    [] a.cmd = "set-headlight" ->
         IF ~has_headlights(m) THEN Done(0, "no_headlights")
         ELSE Send(headlight_payload(a.mode))
    [] OTHER -> Done(0, "help")

\* amc_action.py main, lines 154-178
amc_dispatch(a, m) ==
  CASE a.cmd = "pause" -> Send(Payload("Pause"))
    [] a.cmd = "resume" -> Send(Payload("ResumeSchedule"))
    [] a.cmd = "park" -> Send(park_payload_amc(a.duration))
    [] OTHER -> Done(0, None)

\* main's call of the program's own pick_mower
Pick(items) ==
  IF prog = "ctl" THEN pick_mower(items, args.mower_id, args.mower_name)
  ELSE pick_mower_amc(items, args.mower_id, args.mower_name)

\* get_mowers returns or raises; pick_mower; the command's first request
CliListResponse ==
  /\ IsCli /\ pc = "list_wait"
  /\ \E r \in ListResponses :
       IF RaisesForStatus(r.status)
       THEN /\ out' = out \cup {"list_failed", "ERROR"}
            /\ err' = [kind |-> "http", status |-> r.status, on |-> "list"]
            /\ Exit(1)
            /\ UNCHANGED <<mowers, mower, reqs>>
       ELSE LET p == Pick(r.data)
                d == IF prog = "ctl" THEN ctl_dispatch(args, p.item)
                     ELSE amc_dispatch(args, p.item)
            IN /\ mowers' = r.data
               /\ IF p.kind = "exit"
                  THEN /\ out' = out \cup pick_mower_stderr(r.data, p)
                       /\ err' = [kind |-> "SystemExit", status |-> p.code, on |-> p.msg]
                       /\ Exit(p.code)
                       /\ UNCHANGED <<mower, reqs>>
                  ELSE /\ mower' = p.item
                       /\ IF d.kind = "send"
                          THEN /\ reqs' = Append(reqs, ActionReq(d.payload))
                               /\ pc' = "act_wait"
                               /\ UNCHANGED <<out, err, exitCode>>
                          ELSE /\ out' = out \cup {d.msg}
                               /\ err' = IF d.code = 0 THEN NoErr
                                         ELSE [kind |-> "SystemExit", status |-> d.code,
                                               on |-> d.msg]
                               /\ Exit(d.code)
                               /\ UNCHANGED reqs
  /\ UNCHANGED <<CODE_HOLDER, handler, issued, prog, args, cfg, file, clock, iter, auth, access, lastResp,
                 actResps, pending, ioFailed, writes, file0>>

\* mutant of fallback_to_start: the --fallback-start flag is not consulted
fallback_to_start_Always(sent, fallback_start) == sent.type = "ResumeSchedule"

\* mutant of fallback_to_start: a failed Start is answered by another Start
fallback_to_start_Retry(sent, fallback_start) == fallback_start

\* do_resume (amc: main, cmd == "resume"): the except branch sends Start only
\* for a failure of the ResumeSchedule request, and only with --fallback-start
fallback_to_start(sent, fallback_start) ==
  sent.type = "ResumeSchedule" /\ fallback_start

\* post_action returns or raises; do_resume's fallback (amc: main's)
CliActionResponse ==
  /\ IsCli /\ pc = "act_wait"
  /\ \E r \in ActionResponses :
       LET sent == reqs[Len(reqs)].payload
       IN /\ actResps' = Append(actResps, r)
          /\ IF ~ActionFailed(r)
             THEN /\ out' = out \cup {"OK"}
                  /\ Exit(0)
                  /\ UNCHANGED <<reqs, err>>
             ELSE IF fallback_to_start(sent, args.fallback_start)
             THEN /\ reqs' = Append(reqs, ActionReq(Payload("Start")))
                  /\ UNCHANGED <<pc, out, err, exitCode>>
             ELSE /\ out' = out \cup {"ERROR"}
                  /\ err' = [kind |-> r.kind, status |-> r.status, on |-> sent.type]
                  /\ Exit(1)
                  /\ UNCHANGED reqs
  /\ UNCHANGED <<CODE_HOLDER, handler, issued, prog, args, cfg, file, clock, iter, auth, access, lastResp,
                 pending, mowers, mower, ioFailed, writes, file0>>


\* ------------------------------------------------------------------ poller
\* run_once returned `code`: main returns it (--once), run_loop sleeps
Returned(code) ==
  IF args.once THEN Exit(code) ELSE pc' = "sleep" /\ UNCHANGED exitCode

\* mutant of Raised: run_loop has no handler, the exception leaves main
Raised_Propagates(e) ==
  /\ err' = e
  /\ out' = out \cup {"ERROR"}
  /\ Exit(1)

\* run_once raised: the exception leaves main (--once, exit status 1), or is
\* caught and logged by run_loop, which then sleeps
Raised(e) ==
  /\ err' = e
  /\ IF args.once THEN out' = out \cup {"ERROR"} /\ Exit(1)
     ELSE out' = out \cup {"polling_error"} /\ pc' = "sleep" /\ UNCHANGED exitCode

\* run_once up to the first await: the secrets check, then fetch_mowers'
\* call of async_get_access_token up to the token request (or the cached token)
PollerRunOnce ==
  /\ prog = "poller" /\ pc = "iter"
  /\ lastResp' = NoResp /\ actResps' = <<>> /\ ioFailed' = FALSE /\ writes' = 0
  /\ file0' = file /\ err' = NoErr
  /\ IF MissingSecrets(cfg)
     THEN /\ out' = {"missing_env"}
          /\ reqs' = <<>>
          /\ Returned(2)
     ELSE /\ out' = {}
          /\ UNCHANGED exitCode
          /\ IF NeedsRefresh(auth, clock)
             THEN reqs' = <<TokenReq(auth.refresh_token)>> /\ pc' = "tok_wait"
             ELSE reqs' = <<>> /\ pc' = "tok_done"
  /\ UNCHANGED <<CODE_HOLDER, handler, issued, prog, args, cfg, file, clock, iter, auth, access, pending,
                 mowers, mower>>

\* async_get_access_token after the POST: raise, or cache and test rotation
PollerTokenResponse ==
  /\ prog = "poller" /\ pc = "tok_wait"
  /\ \E r \in TokenResponses :
       /\ lastResp' = r
       /\ IF RaisesForStatus(r.status)
          THEN /\ Raised([kind |-> "http", status |-> r.status, on |-> "token"])
               /\ UNCHANGED <<auth, issued>>
          ELSE IF r.access_token = None
          THEN /\ Raised([kind |-> "KeyError", status |-> r.status, on |-> "token"])
               /\ UNCHANGED <<auth, issued>>
          ELSE /\ auth' = [access_token |-> r.access_token,
                           expires_at |-> clock + ExpiresIn(r),
                           refresh_token |->
                             IF IsRotation(r.refresh_token, auth.refresh_token)
                             THEN r.refresh_token ELSE auth.refresh_token]
               /\ pc' = IF IsRotation(r.refresh_token, auth.refresh_token)
                        THEN "persist" ELSE "tok_done"
               /\ issued' = IF Truthy(r.refresh_token) THEN r.refresh_token
                            ELSE issued
               /\ UNCHANGED <<out, err, exitCode>>
  /\ UNCHANGED <<CODE_HOLDER, handler, prog, args, cfg, file, clock, iter, access, reqs, actResps,
                 pending, mowers, mower, ioFailed, writes, file0>>

\* fetch_mowers: GET /v1/mowers with the token just returned
PollerSendList ==
  /\ prog = "poller" /\ pc = "tok_done"
  /\ reqs' = Append(reqs, ListReq)
  /\ pc' = "list_wait"
  /\ UNCHANGED <<CODE_HOLDER, handler, issued, prog, args, cfg, file, clock, iter, auth, access, lastResp,
                 actResps, pending, out, exitCode, err, mowers, mower,
                 ioFailed, writes, file0>>

\* the rest of run_once: the payload, one line and one Influx point per mower
PollerListResponse ==
  /\ prog = "poller" /\ pc = "list_wait"
  /\ \E r \in ListResponses, influxOk \in BOOLEAN :
       IF RaisesForStatus(r.status)
       THEN /\ Raised([kind |-> "http", status |-> r.status, on |-> "list"])
            /\ UNCHANGED mowers
       ELSE /\ mowers' = r.data
            /\ IF r.data = <<>>
               THEN /\ out' = out \cup {"no_mowers"}
                    /\ Returned(1)
                    /\ UNCHANGED err
               ELSE IF ~influxOk
               THEN Raised([kind |-> "influx", status |-> 0, on |-> "write"])
               ELSE /\ out' = out \cup {"summary"}
                    /\ Returned(0)
                    /\ UNCHANGED err
  /\ UNCHANGED <<CODE_HOLDER, handler, issued, prog, args, cfg, file, clock, iter, auth, access, reqs,
                 lastResp, actResps, pending, mower, ioFailed, writes, file0>>

\* max(1, cfg.poll_seconds)
SleepSeconds(c) == IF c.poll_seconds > MinSleep THEN c.poll_seconds ELSE MinSleep

\* run_loop: asyncio.sleep, then the next iteration
PollerSleep ==
  /\ prog = "poller" /\ pc = "sleep" /\ iter < MaxIter
  /\ clock' = clock + SleepSeconds(cfg)
  /\ iter' = iter + 1
  /\ pc' = "iter"
  /\ UNCHANGED <<CODE_HOLDER, handler, issued, prog, args, cfg, file, auth, access, reqs, lastResp, actResps,
                 pending, out, exitCode, err, mowers, mower, ioFailed, writes,
                 file0>>

\* ------------------------------------------------------ get_refresh_token
\* main: the credentials check, then exchange_code's POST (--code), or the
\* local server is started and the browser opened
GrtStart ==
  /\ prog = "grt" /\ pc = "start"
  /\ IF cfg.client_id = "" \/ cfg.client_secret = ""
     THEN /\ out' = out \cup {"ERROR"}
          /\ err' = [kind |-> "SystemExit", status |-> 1, on |-> "main"]
          /\ Exit(1)
          /\ UNCHANGED <<reqs, file0>>
     ELSE IF Truthy(args.code)
     THEN /\ reqs' = Append(reqs, CodeReq(args.code))
          /\ file0' = file
          /\ pc' = "tok_wait"
          /\ UNCHANGED <<out, err, exitCode>>
     ELSE /\ pc' = "wait_code"
          /\ UNCHANGED <<reqs, file0, out, err, exitCode>>
  /\ UNCHANGED <<CODE_HOLDER, handler, issued, prog, args, cfg, file, clock, iter, auth, access, lastResp,
                 actResps, pending, mowers, mower, ioFailed, writes>>

\* urllib's urlopen raises HTTPError for a status outside 200..299
UrlopenRaises(status) == status < 200 \/ status >= 300

\* exchange_code after post_form: print the tokens, update .env if one came
GrtTokenResponse ==
  /\ prog = "grt" /\ pc = "tok_wait"
  /\ \E r \in TokenResponses :
       /\ lastResp' = r
       /\ IF UrlopenRaises(r.status)
          THEN /\ err' = [kind |-> "http", status |-> r.status, on |-> "token"]
               /\ Exit(1)
               /\ UNCHANGED <<out, issued>>
          ELSE /\ out' = out \cup {"SUCCESS"}
               /\ UNCHANGED err
               /\ issued' = IF Truthy(r.refresh_token) THEN r.refresh_token
                            ELSE issued
               /\ IF Truthy(r.refresh_token)
                  THEN pc' = "persist" /\ UNCHANGED exitCode
                  ELSE Exit(0)
  /\ UNCHANGED <<CODE_HOLDER, handler, prog, args, cfg, file, clock, iter, auth, access, reqs,
                 actResps, pending, mowers, mower, ioFailed, writes, file0>>

\* ------------------------------------ get_refresh_token: the browser flow
\* the local server runs from main's start of it to the end of the process;
\* main does not read CODE_HOLDER again once it has called exchange_code, the
\* handler's steps after that are left out
ServerRuns ==
  /\ prog = "grt" /\ ~Truthy(args.code)
  /\ pc \in {"wait_code", "check_error", "check_state", "exchange"}

\* Handler.do_GET is entered for a request to the redirect path (a request to
\* another path is answered 404 and changes nothing).  The server is shut
\* down from a thread of its own, so another request may still be served.
HandlerGet ==
  /\ ServerRuns /\ handler.pc = "idle" /\ Len(handler.seen) < MaxCallbacks
  /\ \E q \in Callbacks : handler' = [pc |-> "code", seen |-> Append(handler.seen, q)]
  /\ UNCHANGED <<CODE_HOLDER, issued, prog, args, cfg, file, clock, iter, auth,
                 access, pc, reqs, lastResp, actResps, pending, out, exitCode,
                 err, mowers, mower, ioFailed, writes, file0>>

\* do_GET's three assignments to CODE_HOLDER, one at a time
HandlerStore ==
  /\ ServerRuns /\ handler.pc \in {"code", "error", "state"}
  /\ LET q == handler.seen[Len(handler.seen)]
     IN CASE handler.pc = "code" ->
               /\ CODE_HOLDER' = [CODE_HOLDER EXCEPT !.code = Param(q.code)]
               /\ handler' = [handler EXCEPT !.pc = "error"]
          [] handler.pc = "error" ->
               /\ CODE_HOLDER' = [CODE_HOLDER EXCEPT !.error = Param(q.error)]
               /\ handler' = [handler EXCEPT !.pc = "state"]
          [] OTHER ->
               /\ CODE_HOLDER' = [CODE_HOLDER EXCEPT !.state = Param(q.state)]
               /\ handler' = [handler EXCEPT !.pc = "idle"]
  /\ UNCHANGED <<issued, prog, args, cfg, file, clock, iter, auth, access, pc,
                 reqs, lastResp, actResps, pending, out, exitCode, err, mowers,
                 mower, ioFailed, writes, file0>>

\* main's busy wait ends: `code` or `error` is no longer None
GrtCallbackSeen ==
  /\ prog = "grt" /\ pc = "wait_code"
  /\ CODE_HOLDER.code # None \/ CODE_HOLDER.error # None
  /\ pc' = "check_error"
  /\ UNCHANGED <<CODE_HOLDER, handler, issued, prog, args, cfg, file, clock,
                 iter, auth, access, reqs, lastResp, actResps, pending, out,
                 exitCode, err, mowers, mower, ioFailed, writes, file0>>

\* `if CODE_HOLDER["error"]`, then `if CODE_HOLDER["state"] != STATE`: main
\* prints and returns (exit status 0), or goes on
GrtCheck ==
  /\ prog = "grt" /\ pc \in {"check_error", "check_state"}
  /\ IF pc = "check_error"
     THEN IF Truthy(CODE_HOLDER.error)
          THEN out' = out \cup {"oauth_error"} /\ Exit(0)
          ELSE pc' = "check_state" /\ UNCHANGED <<out, exitCode>>
     ELSE IF CODE_HOLDER.state # STATE_TOKEN
          THEN out' = out \cup {"state_mismatch"} /\ Exit(0)
          ELSE pc' = "exchange" /\ UNCHANGED <<out, exitCode>>
  /\ UNCHANGED <<CODE_HOLDER, handler, issued, prog, args, cfg, file, clock,
                 iter, auth, access, reqs, lastResp, actResps, pending, err,
                 mowers, mower, ioFailed, writes, file0>>

\* exchange_code(CODE_HOLDER["code"]) up to post_form's POST
GrtExchange ==
  /\ prog = "grt" /\ pc = "exchange"
  /\ reqs' = Append(reqs, CodeReq(CODE_HOLDER.code))
  /\ file0' = file
  /\ pc' = "tok_wait"
  /\ UNCHANGED <<CODE_HOLDER, handler, issued, prog, args, cfg, clock, file,
                 iter, auth, access, lastResp, actResps, pending, out, exitCode,
                 err, mowers, mower, ioFailed, writes>>

\* ---------------------------------------------------------------- interrupt
\* the process is interrupted or killed while it waits or writes; a write in
\* progress leaves whatever part of the text had reached the file.  main.py
\* turns KeyboardInterrupt into exit status 130; the other programs die of it
Interrupt ==
  /\ pc \in {"tok_wait", "persist", "writing", "list_wait", "act_wait", "sleep",
            "wait_code"}
  /\ IF pc = "writing"
     THEN \E part \in Prefixes(pending) \cup {pending} : file' = Present(part)
     ELSE file' = file
  /\ pc' = "killed"
  /\ exitCode' = IF prog = "poller" THEN 130 ELSE NoExit
  /\ UNCHANGED <<CODE_HOLDER, handler, issued, prog, args, cfg, clock, iter, auth, access, reqs, lastResp,
                 actResps, pending, out, err, mowers, mower, ioFailed, writes,
                 file0>>

\* ------------------------------------------- pick_mower on all device lists
DeviceIds == {ToString(i) : i \in 1..MaxDevices}
DeviceNames == {"A", "B", None}
Devices == {[NoMower EXCEPT !.id = i, !.name = n] : i \in DeviceIds, n \in DeviceNames}

\* the device lists of at most MaxDevices devices, their ids distinct
AllDeviceLists ==
  {l \in UNION {[1..n -> Devices] : n \in 0..MaxDevices} :
     \A i, j \in 1..Len(l) : l[i].id = l[j].id => i = j}

PickSelectors == {None, "", "1", "9"} \X {None, "", "A", "Z"}

InitPick ==
  /\ prog \in {"ctl", "amc"}
  /\ args \in {[Cmd("pause") EXCEPT !.mower_id = s[1], !.mower_name = s[2]] :
                 s \in PickSelectors}
  /\ cfg = AllPresent
  /\ file = Absent
  /\ clock = 0
  /\ iter = 1
  /\ auth = NoAuth
  /\ access = "at1"
  /\ pc = "pick"
  /\ reqs = <<TokenReq(cfg.refresh_token), ListReq>>
  /\ lastResp = NoResp
  /\ actResps = <<>>
  /\ pending = <<>>
  /\ out = {}
  /\ exitCode = NoExit
  /\ err = NoErr
  /\ mowers \in AllDeviceLists
  /\ mower = NoMower
  /\ ioFailed = FALSE
  /\ writes = 0
  /\ file0 = file
  /\ issued = cfg.refresh_token
  /\ CODE_HOLDER = NoCallback
  /\ handler = Idle

\* main's `mower = pick_mower(mowers, args.mower_id, args.mower_name)`
PickStep ==
  /\ pc = "pick"
  /\ LET p == Pick(mowers)
     IN IF p.kind = "exit"
        THEN /\ out' = out \cup pick_mower_stderr(mowers, p)
             /\ err' = [kind |-> "SystemExit", status |-> p.code, on |-> p.msg]
             /\ exitCode' = p.code
             /\ UNCHANGED mower
        ELSE /\ mower' = p.item
             /\ UNCHANGED <<out, err, exitCode>>
  /\ pc' = "picked"
  /\ UNCHANGED <<CODE_HOLDER, handler, issued, prog, args, cfg, file, clock, iter, auth, access, reqs,
                 lastResp, actResps, pending, mowers, ioFailed, writes, file0>>

NextPick == PickStep

SpecPick == InitPick /\ [][NextPick]_vars

Next ==
  \/ CliReadCfg
  \/ CliTokenResponse
  \/ PersistBegin
  \/ PersistWrite
  \/ CliSendList
  \/ CliListResponse
  \/ CliActionResponse
  \/ PollerRunOnce
  \/ PollerTokenResponse
  \/ PollerSendList
  \/ PollerListResponse
  \/ PollerSleep
  \/ GrtStart
  \/ GrtTokenResponse
  \/ HandlerGet
  \/ HandlerStore
  \/ GrtCallbackSeen
  \/ GrtCheck
  \/ GrtExchange
  \/ Interrupt

Spec == Init /\ [][Next]_vars


\* ================================================================== claims
\* what the claims say, in terms of the state

\* the token request of this invocation / iteration (always the first request)
SentRT == reqs[1].rt
TokenCallMade == reqs # <<>> /\ reqs[1].kind = "token"

\* the exchange succeeded (2xx with an access token) ...
ExchangeSucceeded ==
  /\ TokenCallMade
  /\ lastResp.status \in 200..299
  /\ lastResp.access_token # None

\* ... and carried a refresh token different from the one sent
ExchangeRotated ==
  /\ ExchangeSucceeded
  /\ lastResp.refresh_token \notin {None, "", SentRT}

\* the rotation handling ran to its end without an I/O error
RotationHandled ==
  /\ ExchangeRotated
  /\ ~ioFailed
  /\ pc \in {"tok_done", "list_wait", "act_wait", "exit", "sleep", "iter"}

\* some line of the text is the entry KEY=rt (blanks around it aside)
HasEntry(text, rt) ==
  \E i \in 1..Len(splitlines(text)) : strip(splitlines(text)[i]) = <<KEY, rt>>

IsKeyLine(line) == strip(line) # <<>> /\ strip(line)[1] = KEY

\* the lines that are not entries of the key, in order
OtherLines(text) == SelectSeq(splitlines(text), LAMBDA l : ~IsKeyLine(l))

ListOrActionSent == \E i \in 1..Len(reqs) : reqs[i].kind \in {"list", "action"}

\* C1: after a successful exchange that returned a different refresh token and
\* the rotation handling that follows it (no I/O error), the credential file
\* holds the entry HUSQ_REFRESH_TOKEN=<new token> and its other lines are as
\* they were.  (Stated as claimed; the CLIs violate it.)
C1_RotatedTokenPersisted ==
  (prog \in {"poller", "ctl", "amc"} /\ RotationHandled) =>
    /\ file.exists
    /\ HasEntry(file.text, lastResp.refresh_token)
    /\ OtherLines(file.text) = OtherLines(file0.text)

\* the number of token requests among the requests
RECURSIVE TokenReqs(_)
TokenReqs(rs) ==
  IF rs = <<>> THEN 0
  ELSE (IF rs[1].kind = "token" THEN 1 ELSE 0) + TokenReqs(Tail(rs))

\* C2: a call of StaticAuth.async_get_access_token sends exactly one token
\* request when no access token is cached or now >= expires_at - 30, and none
\* otherwise (the cached token is returned, the cache untouched); no other step
\* of the poller sends a token request.
C2_ExchangeIffStale ==
  [][prog = "poller" =>
       IF pc = "iter" /\ ~MissingSecrets(cfg)
       THEN IF auth.access_token \in {None, ""} \/ clock >= auth.expires_at - 30
            THEN reqs' = <<TokenReq(auth.refresh_token)>> /\ pc' = "tok_wait"
            ELSE /\ TokenReqs(reqs') = 0
                 /\ pc' = "tok_done"
                 /\ auth' = auth
       ELSE TokenReqs(reqs') <= TokenReqs(reqs)]_vars

\* C2 witness: a later iteration is served from the cache, with no exchange
C2_CachedTokenUsed ==
  /\ prog = "poller" /\ iter > 1 /\ pc = "list_wait"
  /\ TokenReqs(reqs) = 0
  /\ clock < auth.expires_at - 30

\* C3: after a successful exchange that returned the refresh token that was
\* sent, or none, the credential file has not been written and the in-memory
\* refresh token is the one that was sent.
C3_NoWriteWithoutRotation ==
  (prog \in {"poller", "ctl", "amc"} /\ ExchangeSucceeded /\ ~ExchangeRotated) =>
    /\ writes = 0
    /\ file = file0
    /\ pc \notin {"persist", "writing"}
    /\ ~ioFailed
    /\ (prog = "poller" => auth.refresh_token = SentRT)
    /\ (IsCli => cfg.refresh_token = SentRT)

\* C3 witness: the exchange returned the same refresh token and the run went on
C3_SameTokenReturned ==
  /\ prog \in {"poller", "ctl"} /\ ExchangeSucceeded
  /\ lastResp.refresh_token = SentRT
  /\ ListOrActionSent


\* the refresh token the program holds in memory
InMemoryRT == IF prog = "poller" THEN auth.refresh_token ELSE cfg.refresh_token

\* the write of the credential file was attempted (it opened the file, or raised)
WriteAttempted == writes >= 1 \/ ioFailed

\* C4 as claimed: once a device-list or action request of an invocation /
\* iteration whose exchange rotated the refresh token has been sent, the
\* in-memory refresh token is the new one and the write was attempted.
\* (The CLIs never replace cfg.refresh_token.)
C4_InMemoryReplacedEverywhere ==
  (prog \in {"poller", "ctl", "amc"} /\ ExchangeRotated /\ ListOrActionSent) =>
    /\ WriteAttempted
    /\ pc \notin {"persist", "writing"}
    /\ InMemoryRT = lastResp.refresh_token

\* C4 amended: once a device-list or action request of an invocation /
\* iteration whose exchange rotated the refresh token has been sent, the write
\* of the credential file was attempted and is over, and StaticAuth (the
\* poller) holds the new refresh token; the CLIs keep cfg.refresh_token.
C4_PersistBeforeRequests ==
  (prog \in {"poller", "ctl", "amc"} /\ ExchangeRotated /\ ListOrActionSent) =>
    /\ WriteAttempted
    /\ pc \notin {"persist", "writing"}
    /\ (prog = "poller" => auth.refresh_token = lastResp.refresh_token)
    /\ (IsCli => cfg.refresh_token = SentRT)

\* C4 witness: a rotation was handled and the device-list request is out
C4_RotatedThenListed ==
  /\ ExchangeRotated /\ pc = "list_wait" /\ writes = 1
  /\ prog \in {"poller", "ctl"}

\* C5: when the process is stopped, the credential file holds either the
\* complete old content or the complete new content.  (Stated as claimed; the
\* file is truncated when it is opened, before the new text is written.)
C5_AtomicRewrite ==
  (pc = "killed" /\ ExchangeRotated /\ ~ioFailed) =>
    \/ file = file0
    \/ file = Present(NewText(file0, lastResp.refresh_token))

\* C6: when the write of the rotated refresh token fails, a warning is
\* reported, no error leaves the token call, the new access token is held
\* (cached, in the poller) and the device-list request follows.
C6_PersistFailureIsWarning ==
  (prog \in {"poller", "ctl", "amc"} /\ ioFailed) =>
    /\ "warning_persist" \in out
    /\ err.on # "token" /\ err.kind # "OSError"
    /\ lastResp.access_token # None
    /\ (prog = "poller" => auth.access_token = lastResp.access_token)
    /\ (IsCli => access = lastResp.access_token)
    /\ (pc = "tok_done" \/ ListOrActionSent)

\* C6 witness: the write failed and the command's action request is out
C6_FailedWriteThenAction ==
  ioFailed /\ IsCli /\ pc = "act_wait" /\ "warning_persist" \in out

Non2xx == (100..199) \cup (300..599)
ErrorStatuses == 400..599

\* what C7 says of a token response whose status is in the set `bad`: the
\* call fails with an error of one of `kinds`, and nothing else changes
C7_Step(bad, kinds) ==
  /\ (pc = "tok_wait" /\ pc' # "killed" /\ lastResp'.status \in bad) =>
       /\ err'.kind \in kinds /\ err'.on = "token"
       /\ err'.status = lastResp'.status
       /\ auth' = auth /\ access' = access
       /\ file' = file /\ writes' = writes
       /\ pc' \in {"exit", "sleep"}
       /\ (pc' = "exit" => exitCode' # 0)
  /\ (IsCli /\ lastResp'.status \in bad) =>
       \A i \in 1..Len(reqs') : reqs'[i].kind \notin {"list", "action"}

\* C7 as claimed: any token response with a status outside 200..299 makes the
\* token call fail with an error, leaving cache, refresh token and file alone,
\* and the CLI sends nothing more.  (A status in 300..399 is not treated as a
\* failure: a body with an access token is accepted.)
C7_Non2xxFails ==
  [][(prog \in {"poller", "ctl", "amc"}) =>
       C7_Step(Non2xx, {"http", "KeyError"})]_vars

\* C7 amended: any token response with a status >= 400 makes the token call
\* fail with the HTTP error of that status, leaving the cached access token,
\* its expiry, the in-memory refresh token and the credential file alone; the
\* CLI sends no device-list or action request afterwards.
C7_ErrorStatusFails ==
  [][(prog \in {"poller", "ctl", "amc"}) =>
       C7_Step(ErrorStatuses, {"http"})]_vars

\* C7 witness: the token endpoint answered 400 and the CLI ended with status 1
C7_TokenRefused ==
  IsCli /\ lastResp.status = 400 /\ pc = "exit" /\ exitCode = 1 /\ Len(reqs) = 1

\* C8: a persist that ran to its end on a file without an entry for the key
\* (or on no file) leaves the old lines, in order, followed by the entry as
\* the last line; on a file with an entry it changes nothing but entry lines.
\* (Stated as claimed; the CLIs add nothing when the key text occurs in the
\* file outside an entry.)
C8_AppendedWhenAbsent ==
  (writes = 1 /\ ~ioFailed /\ lastResp.refresh_token # None
     /\ pc \in {"tok_done", "list_wait", "act_wait", "exit", "sleep", "iter"}) =>
    IF \A i \in 1..Len(splitlines(file0.text)) : ~IsKeyLine(splitlines(file0.text)[i])
    THEN splitlines(file.text) =
           Append(splitlines(file0.text), entry(lastResp.refresh_token))
    ELSE OtherLines(file.text) = OtherLines(file0.text)

\* the number of action requests of a type among the requests
RECURSIVE ActionReqs(_, _)
ActionReqs(rs, t) ==
  IF rs = <<>> THEN 0
  ELSE (IF rs[1].kind = "action" /\ rs[1].payload.type = t THEN 1 ELSE 0)
       + ActionReqs(Tail(rs), t)

FailedResponse(r) == r.kind = "neterr" \/ r.status \notin 200..299
ErrorOf(r, t) == [kind |-> r.kind, status |-> r.status, on |-> t]

ResumeFailedAndOver ==
  /\ IsCli /\ args.cmd = "resume" /\ pc = "exit"
  /\ actResps # <<>> /\ FailedResponse(actResps[1])

\* C10 as claimed: resume ended after its ResumeSchedule request failed: with
\* the fallback flag exactly one Start was sent and no error was raised;
\* without it no Start was sent and the ResumeSchedule error came out.
\* (With the flag, a failing Start raises.)
C10_FallbackNeverRaises ==
  ResumeFailedAndOver =>
    IF args.fallback_start
    THEN ActionReqs(reqs, "Start") = 1 /\ err = NoErr /\ exitCode = 0
    ELSE /\ ActionReqs(reqs, "Start") = 0
         /\ err = ErrorOf(actResps[1], "ResumeSchedule") /\ exitCode = 1

\* C10 amended: resume ended after its ResumeSchedule request failed: with the
\* fallback flag exactly one Start was sent, and no error is raised if that
\* Start succeeded, while the Start's own error is raised if it failed;
\* without the flag no Start was sent and the ResumeSchedule error came out.
C10_FallbackOnce ==
  ResumeFailedAndOver =>
    /\ ActionReqs(reqs, "ResumeSchedule") = 1
    /\ IF args.fallback_start
       THEN /\ ActionReqs(reqs, "Start") = 1
            /\ Len(actResps) = 2
            /\ IF FailedResponse(actResps[2])
               THEN err = ErrorOf(actResps[2], "Start") /\ exitCode = 1
               ELSE err = NoErr /\ exitCode = 0 /\ "OK" \in out
       ELSE /\ ActionReqs(reqs, "Start") = 0
            /\ Len(actResps) = 1
            /\ err = ErrorOf(actResps[1], "ResumeSchedule") /\ exitCode = 1

\* C10 witness: ResumeSchedule failed, the one Start succeeded, status 0
C10_FallbackSucceeded ==
  /\ ResumeFailedAndOver /\ args.fallback_start
  /\ Len(actResps) = 2 /\ ~FailedResponse(actResps[2]) /\ exitCode = 0


\* an id or a name was given on the command line
Given(x) == x \notin {None, ""}

\* pick_mower returned the device d (amc_action returns its id)
ReturnedIs(d) ==
  /\ exitCode = NoExit /\ err = NoErr
  /\ IF prog = "ctl" THEN mower = d ELSE mower.id = d.id

\* pick_mower raised SystemExit with status `code` for one of `reasons`
ExitedWith(code, reasons) ==
  /\ exitCode = code /\ err.kind = "SystemExit" /\ err.status = code
  /\ err.on \in reasons /\ mower = NoMower

NotFoundReasons == {"no_mowers", "id_not_found", "name_not_found"}

\* the resolution order of C9 on a list that may be empty or not
C9_Policy ==
  IF Given(args.mower_id)
  THEN IF \E k \in 1..Len(mowers) : mowers[k].id = args.mower_id
       THEN \E k \in 1..Len(mowers) :
              mowers[k].id = args.mower_id /\ ReturnedIs(mowers[k])
       ELSE ExitedWith(1, NotFoundReasons)
  ELSE IF Given(args.mower_name)
  THEN IF \E k \in 1..Len(mowers) : mowers[k].name = args.mower_name
       THEN \E k \in 1..Len(mowers) :
              mowers[k].name = args.mower_name /\ ReturnedIs(mowers[k])
       ELSE ExitedWith(1, NotFoundReasons)
  ELSE IF Len(mowers) = 1 THEN ReturnedIs(mowers[1])
  ELSE ExitedWith(2, {"ambiguous"})

\* C9 as claimed: id first, then name, then the only device, and in every
\* other case AmbiguousSelection (status 2).  (An empty device list with no id
\* or name ends with "No mowers visible", status 1.)
C9_ElseAlwaysAmbiguous == pc = "picked" => C9_Policy

\* C9 amended: an empty device list fails with "No mowers visible" (status 1)
\* whatever id or name was given; on a non-empty list: a given id picks the
\* device with that id or fails NotFound (the name is ignored), else a given
\* name picks a device with that name or fails NotFound, else the only device
\* is picked, and with two or more devices the call fails AmbiguousSelection
\* (status 2).
C9_ResolutionOrder ==
  pc = "picked" =>
    IF mowers = <<>> THEN ExitedWith(1, {"no_mowers"})
    ELSE /\ C9_Policy
         /\ exitCode = 1 => err.on =
              (IF Given(args.mower_id) THEN "id_not_found" ELSE "name_not_found")

\* C9 witness: an id and another device's name were given; the id decided
C9_IdBeatsName ==
  /\ pc = "picked" /\ prog = "ctl" /\ Len(mowers) = 3
  /\ args.mower_id = "1" /\ args.mower_name = "A"
  /\ mower.id = "1" /\ mower.name = "B"
  /\ \E k \in 1..Len(mowers) : mowers[k].name = "A"

\* the positions of the action requests of a type among the requests
ActionIdx(rs, t) ==
  {i \in 1..Len(rs) : rs[i].kind = "action" /\ rs[i].payload.type = t}

AllActionIdx(rs) == {i \in 1..Len(rs) : rs[i].kind = "action"}

\* C11: in an invocation of resume a Start request is sent only after the
\* ResumeSchedule request of the invocation, and only once the response to
\* that request was a failure; at most two action requests are sent, one
\* ResumeSchedule and at most one Start.
C11_StartOnlyAfterFailedResume ==
  (IsCli /\ args.cmd = "resume") =>
    /\ Cardinality(AllActionIdx(reqs)) <= 2
    /\ Cardinality(ActionIdx(reqs, "ResumeSchedule")) <= 1
    /\ Cardinality(ActionIdx(reqs, "Start")) <= 1
    /\ AllActionIdx(reqs) = ActionIdx(reqs, "ResumeSchedule") \cup ActionIdx(reqs, "Start")
    /\ \A i \in ActionIdx(reqs, "Start") :
         /\ \E j \in ActionIdx(reqs, "ResumeSchedule") : j < i
         /\ actResps # <<>> /\ FailedResponse(actResps[1])
    /\ (actResps # <<>> /\ ~FailedResponse(actResps[1])) =>
         (ActionIdx(reqs, "Start") = {} /\ pc = "exit")

\* C11 witness: ResumeSchedule failed, the Start sent after it failed as well,
\* and the invocation ended with these two action requests
C11_BothFailedNoRetry ==
  /\ IsCli /\ args.cmd = "resume" /\ pc = "exit"
  /\ Len(actResps) = 2 /\ FailedResponse(actResps[1]) /\ FailedResponse(actResps[2])
  /\ Cardinality(AllActionIdx(reqs)) = 2

\* the loop mode of the poller: main.py without --once
LoopMode == prog = "poller" /\ ~args.once

\* the pause between two iterations as C12 states it
PauseSeconds == IF cfg.poll_seconds >= 1 THEN cfg.poll_seconds ELSE 1

\* C12: in loop mode no iteration ends the process: an error raised inside an
\* iteration (token exchange, device fetch, malformed payload, metrics write)
\* is logged and the loop goes to its sleep; after the sleep of
\* max(1, poll_seconds) seconds the next iteration starts; the loop ends only
\* by an interrupt (status 130).
C12_LoopSurvivesErrors ==
  [][LoopMode =>
       /\ pc' # "exit"
       /\ (pc' = "killed" => exitCode' = 130)
       /\ (pc' # "killed" => exitCode' = NoExit)
       /\ (err = NoErr /\ err' # NoErr) =>
            (pc' = "sleep" /\ "polling_error" \in out')
       /\ (pc = "sleep" /\ pc' # "killed") =>
            /\ pc' = "iter"
            /\ iter' = iter + 1
            /\ clock' = clock + PauseSeconds
       /\ (pc' = "iter" => pc = "sleep")]_vars

\* C12 witness: the token exchange of the first iteration failed, the error
\* was logged, the loop slept and the second iteration is about to start
C12_NextIterationAfterError ==
  /\ LoopMode /\ iter = 2 /\ pc = "iter"
  /\ err.on = "token" /\ err.kind = "http"
  /\ "polling_error" \in out
  /\ clock = PauseSeconds

NoRequestSent == reqs = <<>>

\* the startup check of the secrets has run
SecretsChecked == pc # "start" /\ ~(pc = "iter" /\ iter = 1)

\* C13: with any of the four secrets empty, the poller (--once and loop mode)
\* and the CLIs send no request, and once the secrets were checked the process
\* has ended with a non-zero status.  (Stated as claimed; in loop mode
\* run_loop drops run_once's status 2 and goes on sleeping and iterating.)
C13_MissingSecretsFatal ==
  (prog \in {"poller", "ctl", "amc"} /\ MissingSecrets(cfg)) =>
    /\ NoRequestSent
    /\ SecretsChecked =>
         (pc \in {"exit", "killed"} /\ exitCode \notin {0, NoExit})

\* set-headlight has picked its device
HeadlightPicked == prog = "ctl" /\ args.cmd = "set-headlight" /\ mower # NoMower

\* C14: set-headlight on a device without the headlights capability sends no
\* action request, prints the informational message and ends with status 0
\* and no error; on a device with the capability the action requests are
\* exactly one settings request carrying the mode given on the command line.
C14_HeadlightCapability ==
  HeadlightPicked =>
    IF ~mower.headlights
    THEN /\ AllActionIdx(reqs) = {}
         /\ "no_headlights" \in out
         /\ pc = "exit" /\ exitCode = 0 /\ err = NoErr
    ELSE /\ Cardinality(AllActionIdx(reqs)) = 1
         /\ \A i \in AllActionIdx(reqs) :
              /\ reqs[i].payload.type = "settings"
              /\ reqs[i].payload.attrs =
                   [workAreaId |-> NoInt, duration |-> NoInt,
                    cuttingHeight |-> NoInt, headlight |-> args.mode]

\* C14 witness: the only device has no headlights; set-headlight ended with
\* status 0 after the token and device-list requests alone
C14_NoHeadlightsNoRequest ==
  /\ HeadlightPicked /\ ~mower.headlights /\ args.mode = "EVENING_ONLY"
  /\ pc = "exit" /\ exitCode = 0 /\ Len(reqs) = 2

\* pick_mower had two or more devices and neither an id nor a name to go by,
\* and every device has its line on stderr
AmbiguousAndListed ==
  /\ IsCli /\ ~Given(args.mower_id) /\ ~Given(args.mower_name)
  /\ Len(mowers) >= 2
  /\ "ambiguous" \in out
  /\ \A i \in 1..Len(mowers) : candidate(mowers[i]) \in out

\* the invocation failed: an error ended it, or the poller saw no device
Failed == err # NoErr \/ (prog = "poller" /\ "no_mowers" \in out)

\* main.py --once found a secret missing
OnceMissingSecrets == prog = "poller" /\ args.once /\ MissingSecrets(cfg)

Durations == {NoInt} \cup (0..MaxDuration)

ParkArgs ==
  {[Cmd("park") EXCEPT !.duration = d, !.until_next = u] :
     d \in Durations, u \in BOOLEAN}

\* the invocation has its token and its device; the command is park
InitPark ==
  /\ prog \in {"ctl", "amc"}
  /\ args \in {a \in ParkArgs : prog = "amc" => ~a.until_next}
  /\ cfg = AllPresent
  /\ file = Absent
  /\ clock = 0
  /\ iter = 1
  /\ auth = NoAuth
  /\ access = "at1"
  /\ pc = "dispatch"
  /\ reqs = <<TokenReq(cfg.refresh_token), ListReq>>
  /\ lastResp = NoResp
  /\ actResps = <<>>
  /\ pending = <<>>
  /\ out = {}
  /\ exitCode = NoExit
  /\ err = NoErr
  /\ mowers = <<Dev("1", "A", FALSE)>>
  /\ mower = Pick(mowers).item
  /\ ioFailed = FALSE
  /\ writes = 0
  /\ file0 = file
  /\ issued = cfg.refresh_token
  /\ CODE_HOLDER = NoCallback
  /\ handler = Idle

\* main's call of do_park (amc: main's park branch) up to post_action's POST
ParkStep ==
  /\ pc = "dispatch"
  /\ LET d == IF prog = "ctl" THEN ctl_dispatch(args, mower)
              ELSE amc_dispatch(args, mower)
     IN reqs' = Append(reqs, ActionReq(d.payload))
  /\ pc' = "act_wait"
  /\ UNCHANGED <<CODE_HOLDER, handler, issued, prog, args, cfg, file, clock, iter, auth, access, lastResp,
                 actResps, pending, out, exitCode, err, mowers, mower, ioFailed,
                 writes, file0>>

NextPark == ParkStep

SpecPark == InitPark /\ [][NextPark]_vars

\* the action request park has sent
ParkSent == reqs[Len(reqs)]

\* C16: park sends one action request: with --until-next it is
\* ParkUntilNextSchedule without a duration, whatever duration was supplied;
\* otherwise without a duration it is ParkUntilFurtherNotice; otherwise it is
\* Park with the supplied duration as its duration attribute.
C16_ParkMapping ==
  (args.cmd = "park" /\ pc = "act_wait" /\ actResps = <<>>) =>
    /\ Cardinality(AllActionIdx(reqs)) = 1
    /\ ParkSent.kind = "action"
    /\ IF args.until_next
       THEN /\ ParkSent.payload.type = "ParkUntilNextSchedule"
            /\ ParkSent.payload.attrs.duration = NoInt
       ELSE IF args.duration = NoInt
       THEN /\ ParkSent.payload.type = "ParkUntilFurtherNotice"
            /\ ParkSent.payload.attrs.duration = NoInt
       ELSE /\ ParkSent.payload.type = "Park"
            /\ ParkSent.payload.attrs.duration = args.duration
    /\ ParkSent.payload.attrs.workAreaId = NoInt
    /\ ParkSent.payload.attrs.cuttingHeight = NoInt
    /\ ParkSent.payload.attrs.headlight = None

\* C16 witness: --until-next together with --duration 30: the request is
\* ParkUntilNextSchedule
C16_UntilNextBeatsDuration ==
  /\ prog = "ctl" /\ args.cmd = "park" /\ pc = "act_wait"
  /\ args.until_next /\ args.duration = 30
  /\ ParkSent.payload.type = "ParkUntilNextSchedule"

\* --------------------------------------- start --work-area on all area lists
AreaIds == {3, 7}
AreaNames == {"7", "Front", None}
Areas == [workAreaId : AreaIds, name : AreaNames]

\* attributes.workAreas: the lists of at most MaxAreas work areas
AllAreaLists == UNION {[1..n -> Areas] : n \in 0..MaxAreas}

AreaArgs ==
  {[Cmd("start") EXCEPT !.work_area = w] : w \in {"7", "3", "Front", "Nowhere"}}

\* the invocation has its token and its device; the command is start
InitArea ==
  /\ prog = "ctl"
  /\ args \in AreaArgs
  /\ cfg = AllPresent
  /\ file = Absent
  /\ clock = 0
  /\ iter = 1
  /\ auth = NoAuth
  /\ access = "at1"
  /\ pc = "dispatch"
  /\ reqs = <<TokenReq(cfg.refresh_token), ListReq>>
  /\ lastResp = NoResp
  /\ actResps = <<>>
  /\ pending = <<>>
  /\ out = {}
  /\ exitCode = NoExit
  /\ err = NoErr
  /\ \E l \in AllAreaLists : mowers = <<[Dev("1", "A", FALSE) EXCEPT !.workAreas = l]>>
  /\ mower = Pick(mowers).item
  /\ ioFailed = FALSE
  /\ writes = 0
  /\ file0 = file
  /\ issued = cfg.refresh_token
  /\ CODE_HOLDER = NoCallback
  /\ handler = Idle

\* main's start branch: find_work_area_id, then do_start up to the POST
StartStep ==
  /\ pc = "dispatch"
  /\ LET d == ctl_dispatch(args, mower)
     IN IF d.kind = "send"
        THEN /\ reqs' = Append(reqs, ActionReq(d.payload))
             /\ pc' = "act_wait"
             /\ UNCHANGED <<out, err, exitCode>>
        ELSE /\ out' = out \cup {d.msg}
             /\ err' = [kind |-> "SystemExit", status |-> d.code, on |-> d.msg]
             /\ Exit(d.code)
             /\ UNCHANGED reqs
  /\ UNCHANGED <<CODE_HOLDER, handler, issued, prog, args, cfg, file, clock, iter, auth, access, lastResp,
                 actResps, pending, mowers, mower, ioFailed, writes, file0>>

NextArea == StartStep

SpecArea == InitArea /\ [][NextArea]_vars

\* the work areas of the picked device whose name / stringified id is w
NamedAreas(w) == {i \in 1..Len(mower.workAreas) : mower.workAreas[i].name = w}
NumberedAreas(w) ==
  {i \in 1..Len(mower.workAreas) : ToString(mower.workAreas[i].workAreaId) = w}

\* start --work-area has resolved the area: the Start request is out, or the
\* invocation ended
AreaResolved ==
  /\ prog = "ctl" /\ args.cmd = "start" /\ Given(args.work_area)
  /\ mower # NoMower /\ actResps = <<>> /\ pc \in {"act_wait", "exit"}

\* C17: start --work-area W sends its Start with the id of a work area named
\* W if there is one; only if there is none, with the id of the work area
\* whose id reads W; if there is neither, it fails with the not-found error
\* (status 1) and sends no action request.
C17_NameBeforeId ==
  AreaResolved =>
    IF NamedAreas(args.work_area) # {}
    THEN /\ pc = "act_wait" /\ Cardinality(AllActionIdx(reqs)) = 1
         /\ reqs[Len(reqs)].payload.type = "Start"
         /\ \E i \in NamedAreas(args.work_area) :
              reqs[Len(reqs)].payload.attrs.workAreaId = mower.workAreas[i].workAreaId
    ELSE IF NumberedAreas(args.work_area) # {}
    THEN /\ pc = "act_wait" /\ Cardinality(AllActionIdx(reqs)) = 1
         /\ reqs[Len(reqs)].payload.type = "Start"
         /\ \E i \in NumberedAreas(args.work_area) :
              reqs[Len(reqs)].payload.attrs.workAreaId = mower.workAreas[i].workAreaId
    ELSE /\ pc = "exit" /\ exitCode = 1
         /\ err = [kind |-> "SystemExit", status |-> 1, on |-> "work_area_not_found"]
         /\ AllActionIdx(reqs) = {}

\* C17 witness: area 7 comes first and area 3 is named "7"; --work-area 7
\* starts in area 3
C17_NameWinsOverId ==
  /\ AreaResolved /\ args.work_area = "7" /\ pc = "act_wait"
  /\ Len(mower.workAreas) = 2
  /\ mower.workAreas[1].workAreaId = 7 /\ mower.workAreas[1].name = "Front"
  /\ mower.workAreas[2].workAreaId = 3 /\ mower.workAreas[2].name = "7"
  /\ reqs[Len(reqs)].payload.attrs.workAreaId = 3

KindIdx(rs, k) == {i \in 1..Len(rs) : rs[i].kind = k}

ActionTypes == {reqs[i].payload.type : i \in AllActionIdx(reqs)}

\* the exchange, the list fetch and the resolution of the device (and of the
\* work area, for start --work-area) have succeeded
ExchangeListResolveDone ==
  /\ lastResp.status \in 200..399 /\ lastResp.access_token # None
  /\ access = lastResp.access_token
  /\ pc \notin {"start", "tok_wait", "persist", "writing", "tok_done", "list_wait"}
  /\ mower # NoMower
  /\ \E k \in 1..Len(mowers) : mowers[k].id = mower.id
  /\ (prog = "ctl" /\ args.cmd = "start" /\ Given(args.work_area)) =>
       (NamedAreas(args.work_area) \cup NumberedAreas(args.work_area) # {})

\* the order of the requests of a CLI invocation: at most one token request,
\* at most one device-list request after it, action requests only after both
\* and after the resolution, each type of action request at most once
C18_Order ==
  /\ Cardinality(KindIdx(reqs, "token")) <= 1
  /\ Cardinality(KindIdx(reqs, "list")) <= 1
  /\ \A i \in KindIdx(reqs, "list") : \E j \in KindIdx(reqs, "token") : j < i
  /\ \A i \in AllActionIdx(reqs) : \E j \in KindIdx(reqs, "list") : j < i
  /\ AllActionIdx(reqs) # {} => ExchangeListResolveDone
  /\ \A t \in ActionTypes : Cardinality(ActionIdx(reqs, t)) = 1

\* C18 as claimed: every CLI invocation makes exactly one token exchange, at
\* most one device-list fetch after it, and sends action requests only after
\* exchange, list fetch and resolution succeeded, each variant at most once.
\* (An invocation that finds a secret missing makes no exchange.)
C18_ExactlyOneExchange ==
  IsCli =>
    /\ C18_Order
    /\ pc # "start" => Cardinality(KindIdx(reqs, "token")) = 1

\* C18 amended: a CLI invocation that finds its four secrets makes exactly one
\* token exchange, one that finds a secret missing makes none and sends
\* nothing; at most one device-list fetch follows the exchange; action
\* requests are sent only after exchange, list fetch and resolution of the
\* device (and work area) succeeded, each variant at most once.
C18_CliOrder ==
  IsCli =>
    /\ C18_Order
    /\ pc # "start" =>
         IF MissingSecrets(cfg) THEN reqs = <<>>
         ELSE Cardinality(KindIdx(reqs, "token")) = 1

\* C18 witness: start --work-area after a rotation that was persisted: token
\* request, device-list request, one Start, status 0
C18_ExchangeListStart ==
  /\ prog = "ctl" /\ args.cmd = "start" /\ Given(args.work_area)
  /\ pc = "exit" /\ exitCode = 0 /\ writes = 1
  /\ Len(reqs) = 3 /\ reqs[1].kind = "token" /\ reqs[2].kind = "list"
  /\ reqs[3].kind = "action" /\ reqs[3].payload.type = "Start"

\* C19: in the poller, the refresh token sent in an exchange is the one
\* returned by the most recent earlier successful exchange that carried one,
\* or the startup token if there was none, whether or not it reached the
\* credential file; once another token was returned, the startup token is not
\* sent again; StaticAuth holds that token between the exchanges.
C19_SendsLatestRefreshToken ==
  prog = "poller" =>
    /\ auth.refresh_token = issued
    /\ pc = "tok_wait" =>
         /\ TokenCallMade /\ SentRT = issued
         /\ issued # cfg.refresh_token => SentRT # cfg.refresh_token

\* C19 witness: the first exchange returned rt2, writing it to the file
\* failed, and the exchange of the next iteration sends rt2
C19_RotatedTokenSentUnpersisted ==
  /\ prog = "poller" /\ iter = 2 /\ pc = "tok_wait"
  /\ cfg.refresh_token = "rt1" /\ SentRT = "rt2"
  /\ file = Present(<<KEY, "rt1", NL>>)

BrowserFlow == prog = "grt" /\ ~Truthy(args.code)

\* a callback request without an error parameter and with the generated state
ValidCallback(q) == q.error = None /\ q.state = STATE_TOKEN

\* C20: in the browser flow, every code that exchange_code sends (and so
\* every rewrite of .env) is the code of a callback request that carried no
\* error parameter and the generated STATE, however the handler thread and
\* the main thread interleave.  (Stated as claimed; main may read `error`
\* before the handler has stored it and `state` after.)
C20_ExchangeOnlyForValidCallback ==
  BrowserFlow =>
    \A i \in KindIdx(reqs, "code") :
      \E k \in 1..Len(handler.seen) :
        /\ ValidCallback(handler.seen[k])
        /\ reqs[i].rt = Param(handler.seen[k].code)

====
